---- MODULE Spec2Model ----
(***************************************************************************)
(* Reference-counted smart pointers: ControlBlockBase and its two          *)
(* variants, SharedPtr and WeakPtr (src/shared.h, src/weak.h).             *)
(*                                                                         *)
(* The heap holds control blocks and the objects they govern.  Every       *)
(* governed object is a node with two members, a SharedPtr `next` and a    *)
(* WeakPtr `self`, so that a pointee's destructor can itself release       *)
(* references (the nested calls the control-block protocol has to          *)
(* survive).  Pointer instances are either local variables of the client   *)
(* ("stack" slots) or such members.                                        *)
(*                                                                         *)
(* Each action is one whole call of a member function, computed by the     *)
(* operators below, which follow the code statement by statement.  The     *)
(* operators also return `log`, the ordered list of the control-block      *)
(* events of the call.                                                     *)
(* An access to freed memory or to a destroyed member is undefined         *)
(* behaviour: the value read is a nondeterministic choice (the oracle g),  *)
(* `ub` is raised, and the execution is not followed past that call.       *)
(***************************************************************************)
EXTENDS Integers, Sequences, FiniteSets

\* ---------------------------------------------------------------- bounds
MaxBlocks == 2
NumShared == 2
NumWeak == 2
MaxCount == 3
NumUnique == 2
MaxAddr == 3
NumDeleters == 2

\* std::size_t counters, scaled down: arithmetic is modulo SizeModulus
SizeModulus == 16

\* nullptr
Null == 0

Blocks == 1..MaxBlocks

\* address of the object governed by block b, and of a sub-object of it
Obj(b) == 2 * b - 1
Sub(b) == 2 * b

\* SharedPtr instances: locals 1..NumShared, then member `next` of object b
StackS == 1..NumShared
MemberS(b) == NumShared + b
TmpS == NumShared + MaxBlocks + 1
SIds == 1..TmpS

\* WeakPtr instances: locals 1..NumWeak, then member `self` of object b
StackW == 1..NumWeak
MemberW(b) == NumWeak + b
TmpW == NumWeak + MaxBlocks + 1
WIds == 1..TmpW

\* UniquePtr instances, the addresses they are given, and the cleanup
\* policies (deleter objects) they are constructed with
UIds == 1..NumUnique
Addrs == 1..MaxAddr
Deleters == 1..NumDeleters

VARIABLES blk, obj, sp, wp, ub, exc, up, mem

vars == <<blk, obj, sp, wp, ub, exc, up, mem>>

\* the heap as one value, threaded through the operators; log and exc
\* start afresh with every call
Heap == [blk |-> blk, obj |-> obj, sp |-> sp, wp |-> wp, log |-> <<>>,
         ub |-> ub, exc |-> FALSE]

\* a control block: its allocation state, its variant, strong_, weak_ and
\* ptr_ (the address of the governed object), and the history of what was
\* done to it: hook counts the calls of OnZeroStrong, deleted is the address
\* handed to the deleter or destroyed in place, frees counts `delete block_`,
\* objAtFree is the state of the governed object at the first of them, uaf
\* records an access after it; objmem tells where the governed object is
\* stored: "inside" the block's own allocation, in an allocation of its
\* "own" made by the client, or in one that has been "released"
NoBlock == [st |-> "none", kind |-> "none", strong |-> 0, weak |-> 0, ptr |-> Null,
            hook |-> 0, deleted |-> Null, frees |-> 0, objAtFree |-> "none",
            uaf |-> FALSE, objmem |-> "none"]
NoPtr == [live |-> FALSE, ptr |-> Null, block |-> Null]
NullPtr == [live |-> TRUE, ptr |-> Null, block |-> Null]

Inc(x) == (x + 1) % SizeModulus
Dec(x) == (x + SizeModulus - 1) % SizeModulus

\* what a read of freed memory yields: the truth of a zero test on a freed
\* block's counters, and whether a pointer field re-read from a destroyed
\* instance still has the value held before the nested call
Oracle == [zero : BOOLEAN, cached : BOOLEAN]
DefaultOracle == [zero |-> TRUE, cached |-> TRUE]

\* the oracle is consulted only after ub is raised, so one evaluation
\* decides whether the others can differ
Outcomes(F(_)) ==
    IF F(DefaultOracle).ub THEN {F(g) : g \in Oracle} ELSE {F(DefaultOracle)}

Emit(h, e) == [h EXCEPT !.log = Append(@, e)]

\* every read or write of a control block's fields goes through here
Touch(h, b) ==
    IF h.blk[b].st = "live" THEN h
    ELSE [h EXCEPT !.ub = TRUE, !.blk[b].uaf = TRUE,
                   !.log = Append(@, <<"UseAfterFree", b>>)]

\* every read or write of a pointer instance's own fields
TouchS(h, s) ==
    IF h.sp[s].live THEN h
    ELSE [h EXCEPT !.ub = TRUE, !.log = Append(@, <<"DeadPointer", s>>)]

TouchW(h, w) ==
    IF h.wp[w].live THEN h
    ELSE [h EXCEPT !.ub = TRUE, !.log = Append(@, <<"DeadPointer", w>>)]

\* Let(x, F) is F(x): the value of one statement handed to the rest of the
\* function body
Let(x, F(_)) == F(x)

\* ------------------------------------------------------ ControlBlockBase
AddStrong(h, b) ==
    LET h1 == Touch(h, b)
    IN  [h1 EXCEPT !.blk[b].strong = Inc(@), !.log = Append(@, <<"AddStrong", b>>)]

AddWeak(h, b) ==
    LET h1 == Touch(h, b)
    IN  [h1 EXCEPT !.blk[b].weak = Inc(@), !.log = Append(@, <<"AddWeak", b>>)]

GetStrong(h, b) == h.blk[b].strong

GetWeak(h, b) == h.blk[b].weak

\* variant: the hook is run one decrement early
StrongIsZero_Early(h, b, g) ==
    IF h.blk[b].st = "live" THEN h.blk[b].strong <= 1 ELSE g.zero

\* strong_ == 0, read from the block (any value if the block is freed)
StrongIsZero(h, b, g) ==
    IF h.blk[b].st = "live" THEN h.blk[b].strong = 0 ELSE g.zero

\* strong_ + weak_ == 0, read from the block (any value if it is freed)
BothZero(h, b, g) ==
    IF h.blk[b].st = "live"
    THEN (h.blk[b].strong + h.blk[b].weak) % SizeModulus = 0
    ELSE g.zero

\* delete block_
DeleteBlock(h, b) ==
    IF h.blk[b].st = "live"
    THEN [h EXCEPT !.blk[b].st = "freed", !.blk[b].frees = @ + 1,
                   !.blk[b].objAtFree = h.obj[b],
                   !.log = Append(@, <<"Free", b>>)]
    ELSE [h EXCEPT !.ub = TRUE, !.blk[b].frees = @ + 1, !.blk[b].uaf = TRUE,
                   !.log = Append(@, <<"Free", b>>)]

\* --strong_ / --weak_
DecStrong(h, b) ==
    LET h1 == Touch(h, b)
    IN  [h1 EXCEPT !.blk[b].strong = Dec(@), !.log = Append(@, <<"RemoveStrong", b>>)]

DecWeak(h, b) ==
    LET h1 == Touch(h, b)
    IN  [h1 EXCEPT !.blk[b].weak = Dec(@), !.log = Append(@, <<"RemoveWeak", b>>)]

RECURSIVE RemoveStrong(_, _, _)
RECURSIVE OnZeroStrong(_, _, _)
RECURSIVE DestroyObject(_, _, _)
RECURSIVE SharedPtr_Reset(_, _, _)
RECURSIVE SharedPtr_Dtor(_, _, _)

RemoveWeak(h, b, g) ==
    Let(DecWeak(h, b), LAMBDA h2 : [h |-> h2, ret |-> BothZero(h2, b, g)])

\* WeakPtr::Reset()
WeakPtr_Reset(h, w, g) ==
    Let(TouchW(h, w), LAMBDA h0 :
        IF h0.wp[w].block = Null THEN h0
        ELSE Let(RemoveWeak(h0, h0.wp[w].block, g), LAMBDA r :
             Let(IF r.ret THEN DeleteBlock(r.h, h0.wp[w].block) ELSE r.h, LAMBDA h1 :
                 [h1 EXCEPT !.wp[w].block = Null, !.wp[w].ptr = Null])))

\* WeakPtr::~WeakPtr()
WeakPtr_Dtor(h, w, g) ==
    LET h1 == WeakPtr_Reset(h, w, g)
    IN  [h1 EXCEPT !.wp[w].live = FALSE]

RemoveStrong(h, b, g) ==
    Let(DecStrong(h, b), LAMBDA h2 :
    Let(IF StrongIsZero(h2, b, g) THEN OnZeroStrong(h2, b, g) ELSE h2, LAMBDA h3 :
    Let(Touch(h3, b), LAMBDA h4 :
        [h |-> h4, ret |-> BothZero(h4, b, g)])))

\* ~T() of the governed object: members are destroyed in reverse order of
\* declaration (self, then next)
DestroyObject(h, b, g) ==
    IF h.obj[b] # "alive"
    THEN [h EXCEPT !.ub = TRUE, !.log = Append(@, <<"DoubleDestroy", b>>)]
    ELSE LET h1 == [h EXCEPT !.obj[b] = "dying",
                             !.log = Append(@, <<"DtorBegin", b>>)]
             h2 == WeakPtr_Dtor(h1, MemberW(b), g)
             h3 == SharedPtr_Dtor(h2, MemberS(b), g)
         IN  [h3 EXCEPT !.obj[b] = "dead", !.log = Append(@, <<"DtorEnd", b>>)]

\* ControlBlockPointer::OnZeroStrong: default_delete<T>()(ptr_); ptr_ = nullptr
\* ControlBlockEmplace::OnZeroStrong: Get()->~T()
OnZeroStrong(h, b, g) ==
    Let([h EXCEPT !.blk[b].hook = @ + 1, !.log = Append(@, <<"OnZeroStrong", b>>)],
        LAMBDA h0 :
    Let(IF h0.blk[b].kind = "emplace" \/ h0.blk[b].ptr # Null
        THEN DestroyObject([h0 EXCEPT !.blk[b].deleted = h0.blk[b].ptr], b, g)
        ELSE h0, LAMBDA h1 :
        IF h0.blk[b].kind = "emplace" THEN h1
        ELSE Let(IF h0.blk[b].ptr # Null
                 THEN [h1 EXCEPT !.blk[b].objmem = "released",
                                 !.log = Append(@, <<"FreeObject", b>>)]
                 ELSE h1, LAMBDA hd :
             Let(Touch(hd, b), LAMBDA h2 : [h2 EXCEPT !.blk[b].ptr = Null]))))

\* SharedPtr::Reset(); block_ is read again after RemoveStrong returns
SharedPtr_Reset(h, s, g) ==
    Let(TouchS(h, s), LAMBDA h0 :
        IF h0.sp[s].block = Null THEN h0
        ELSE Let(RemoveStrong(h0, h0.sp[s].block, g), LAMBDA r :
             Let(TouchS(r.h, s), LAMBDA h1 :
             Let(IF h1.sp[s].live \/ g.cached THEN h0.sp[s].block ELSE h1.sp[s].block,
                 LAMBDA d :
             Let(IF r.ret /\ d # Null THEN DeleteBlock(h1, d) ELSE h1, LAMBDA h2 :
                 [h2 EXCEPT !.sp[s].block = Null, !.sp[s].ptr = Null])))))

\* SharedPtr::~SharedPtr()
SharedPtr_Dtor(h, s, g) ==
    LET h1 == SharedPtr_Reset(h, s, g)
    IN  [h1 EXCEPT !.sp[s].live = FALSE]

\* SharedPtr::Reset(T* ptr, ControlBlockBase* block)
SharedPtr_ResetTo(h, s, ptr, block, g) ==
    Let(TouchS(h, s), LAMBDA h0 :
        IF h0.sp[s].block = block THEN h0
        ELSE Let(SharedPtr_Reset(h0, s, g), LAMBDA h1 :
             Let(TouchS(h1, s), LAMBDA h2 :
                 [h2 EXCEPT !.sp[s].ptr = ptr, !.sp[s].block = block])))

\* if (block_) { block_->AddStrong(); }
AddStrongIfBlock(h, s) ==
    Let(TouchS(h, s), LAMBDA h0 :
        IF h0.sp[s].block # Null THEN AddStrong(h0, h0.sp[s].block) ELSE h0)

\* if (block_) { block_->AddWeak(); }
AddWeakIfBlock(h, w) ==
    Let(TouchW(h, w), LAMBDA h0 :
        IF h0.wp[w].block # Null THEN AddWeak(h0, h0.wp[w].block) ELSE h0)

\* new ControlBlockPointer<T>(ptr) / new ControlBlockEmplace<T>(args...):
\* new ControlBlockPointer<T>(ptr) / new ControlBlockEmplace<T>(args...): one
\* allocation, which in the second case holds the object as well (storage_).
\* Counters start at strong_ = 1, weak_ = 0; the governed node comes with
\* its two members default-constructed
NewBlock(h, b, kind) ==
    [h EXCEPT !.blk[b] = [NoBlock EXCEPT !.st = "live", !.kind = kind,
                                         !.strong = 1, !.weak = 0, !.ptr = Obj(b),
                                         !.objmem = IF kind = "emplace"
                                                    THEN "inside" ELSE "own"],
              !.obj[b] = "alive",
              !.sp[MemberS(b)] = NullPtr,
              !.wp[MemberW(b)] = NullPtr,
              !.log = Append(@, <<"New", b>>)]

\* SharedPtr() / SharedPtr(std::nullptr_t)
SharedPtr_Default(h, s) == [h EXCEPT !.sp[s] = NullPtr]

\* explicit SharedPtr(T* ptr), ptr a freshly allocated node
SharedPtr_FromRaw(h, s, b) ==
    LET h1 == NewBlock(h, b, "pointer")
    IN  [h1 EXCEPT !.sp[s] = [live |-> TRUE, ptr |-> Obj(b), block |-> b]]

\* MakeShared<T>(args...)
MakeShared(h, s, b) ==
    LET h1 == NewBlock(h, b, "emplace")
    IN  [h1 EXCEPT !.sp[s] = [live |-> TRUE, ptr |-> Obj(b), block |-> b]]

\* SharedPtr(const SharedPtr& other)
SharedPtr_Copy(h, s, o) ==
    Let(TouchS(h, o), LAMBDA h0 :
        AddStrongIfBlock([h0 EXCEPT !.sp[s] = [live |-> TRUE, ptr |-> h0.sp[o].ptr,
                                               block |-> h0.sp[o].block]], s))

\* variant: the move constructor releases the source before it counts itself
SharedPtr_Move_ReleaseFirst(h, s, o, g) ==
    Let(TouchS(h, o), LAMBDA h0 :
        AddStrongIfBlock(
            [SharedPtr_Reset(h0, o, g) EXCEPT
                !.sp[s] = [live |-> TRUE, ptr |-> h0.sp[o].ptr,
                           block |-> h0.sp[o].block]], s))

\* SharedPtr(SharedPtr&& other)
SharedPtr_Move(h, s, o, g) ==
    SharedPtr_Reset(SharedPtr_Copy(h, s, o), o, g)

\* variant: the aliasing constructor takes the block without counting itself
SharedPtr_Alias_NoAdd(h, s, o, ptr) ==
    Let(TouchS(h, o), LAMBDA h0 :
        [h0 EXCEPT !.sp[s] = [live |-> TRUE, ptr |-> ptr, block |-> h0.sp[o].block]])

\* SharedPtr(const SharedPtr<Y>& other, T* ptr)
SharedPtr_Alias(h, s, o, ptr) ==
    Let(TouchS(h, o), LAMBDA h0 :
        AddStrongIfBlock([h0 EXCEPT !.sp[s] = [live |-> TRUE, ptr |-> ptr,
                                               block |-> h0.sp[o].block]], s))

\* variant: copy assignment without the test this == &other
SharedPtr_CopyAssign_NoSelfTest(h, a, o, g) ==
    Let(TouchS(h, o), LAMBDA h0 :
        AddStrongIfBlock(
            SharedPtr_ResetTo(h0, a, h0.sp[o].ptr, h0.sp[o].block, g), a))

\* SharedPtr::operator=(const SharedPtr& other)
SharedPtr_CopyAssign(h, a, o, g) ==
    IF a = o THEN h
    ELSE Let(TouchS(h, o), LAMBDA h0 :
             AddStrongIfBlock(
                 SharedPtr_ResetTo(h0, a, h0.sp[o].ptr, h0.sp[o].block, g), a))

\* SharedPtr::operator=(SharedPtr&& other)
SharedPtr_MoveAssign(h, a, o, g) ==
    IF a = o THEN h
    ELSE Let(TouchS(h, o), LAMBDA h0 :
             SharedPtr_Reset(
                 AddStrongIfBlock(
                     SharedPtr_ResetTo(h0, a, h0.sp[o].ptr, h0.sp[o].block, g), a),
                 o, g))

\* SharedPtr::Reset(T* ptr), ptr the address governed by the fresh block b
\* or the address already stored
SharedPtr_ResetPtr(h, s, ptr, b, g) ==
    Let(TouchS(h, s), LAMBDA h0 :
        IF ptr = h0.sp[s].ptr THEN h0
        ELSE SharedPtr_ResetTo(NewBlock(h0, b, "pointer"), s, ptr, b, g))

\* SharedPtr::Swap(SharedPtr& other): tmp is the local copy
SharedPtr_Swap(h, a, o, g) ==
    SharedPtr_Dtor(
        SharedPtr_CopyAssign(
            SharedPtr_CopyAssign(SharedPtr_Copy(h, TmpS, a), a, o, g),
            o, TmpS, g),
        TmpS, g)

\* SharedPtr::UseCount()
SharedPtr_UseCount(h, s) ==
    IF h.sp[s].block # Null THEN GetStrong(h, h.sp[s].block) ELSE 0

\* SharedPtr::Get()
SharedPtr_Get(h, s) == h.sp[s].ptr

\* ---------------------------------------------------------------- WeakPtr
\* WeakPtr()
WeakPtr_Default(h, w) == [h EXCEPT !.wp[w] = NullPtr]

\* WeakPtr(const WeakPtr& other)
WeakPtr_Copy(h, w, o) ==
    Let(TouchW(h, o), LAMBDA h0 :
        AddWeakIfBlock([h0 EXCEPT !.wp[w] = [live |-> TRUE, ptr |-> h0.wp[o].ptr,
                                             block |-> h0.wp[o].block]], w))

\* WeakPtr(WeakPtr&& other)
WeakPtr_Move(h, w, o, g) ==
    WeakPtr_Reset(WeakPtr_Copy(h, w, o), o, g)

\* WeakPtr(const SharedPtr<T>& other)
WeakPtr_FromShared(h, w, s) ==
    Let(TouchS(h, s), LAMBDA h0 :
        AddWeakIfBlock([h0 EXCEPT !.wp[w] = [live |-> TRUE, ptr |-> h0.sp[s].ptr,
                                             block |-> h0.sp[s].block]], w))

\* WeakPtr::Reset(T* ptr, ControlBlockBase* block)
WeakPtr_ResetTo(h, w, ptr, block, g) ==
    Let(TouchW(h, w), LAMBDA h0 :
        IF h0.wp[w].block = block THEN h0
        ELSE Let(WeakPtr_Reset(h0, w, g), LAMBDA h1 :
                 AddWeakIfBlock([h1 EXCEPT !.wp[w].ptr = ptr, !.wp[w].block = block], w)))

\* variant: copy assignment counts the new reference a second time, after
\* Reset(ptr, block) has returned
WeakPtr_CopyAssign_AddAgain(h, a, o, g) ==
    IF a = o THEN h
    ELSE Let(TouchW(h, o), LAMBDA h0 :
             AddWeakIfBlock(
                 WeakPtr_ResetTo(h0, a, h0.wp[o].ptr, h0.wp[o].block, g), a))

\* WeakPtr::operator=(const WeakPtr& other)
WeakPtr_CopyAssign(h, a, o, g) ==
    IF a = o THEN h
    ELSE Let(TouchW(h, o), LAMBDA h0 :
             WeakPtr_ResetTo(h0, a, h0.wp[o].ptr, h0.wp[o].block, g))

\* WeakPtr::operator=(WeakPtr&& other)
WeakPtr_MoveAssign(h, a, o, g) ==
    IF a = o THEN h
    ELSE Let(TouchW(h, o), LAMBDA h0 :
             WeakPtr_Reset(
                 WeakPtr_ResetTo(h0, a, h0.wp[o].ptr, h0.wp[o].block, g), o, g))

\* WeakPtr::Swap(WeakPtr& other)
WeakPtr_Swap(h, a, o, g) ==
    WeakPtr_Dtor(
        WeakPtr_CopyAssign(
            WeakPtr_CopyAssign(WeakPtr_Copy(h, TmpW, a), a, o, g),
            o, TmpW, g),
        TmpW, g)

\* WeakPtr::UseCount()
WeakPtr_UseCount(h, w) ==
    IF h.wp[w].block # Null THEN GetStrong(h, h.wp[w].block) ELSE 0

\* WeakPtr::Expired()
Expired(h, w) == WeakPtr_UseCount(h, w) = 0

\* variant: promotion without the test of Expired()
SharedPtr_FromWeak_NoThrow(h, s, w) ==
    Let(TouchW(h, w), LAMBDA h0 :
        AddStrongIfBlock(
            [h0 EXCEPT !.sp[s] = [live |-> TRUE, ptr |-> h0.wp[w].ptr,
                                  block |-> h0.wp[w].block]], s))

\* explicit SharedPtr(const WeakPtr<T>& other): throws BadWeakPtr, and then
\* no object is constructed
SharedPtr_FromWeak(h, s, w) ==
    Let(TouchW(h, w), LAMBDA hw :
    Let(IF hw.wp[w].block # Null THEN Touch(hw, hw.wp[w].block) ELSE hw, LAMBDA h0 :
        IF Expired(h0, w) THEN [h0 EXCEPT !.exc = TRUE]
        ELSE AddStrongIfBlock(
                 [h0 EXCEPT !.sp[s] = [live |-> TRUE, ptr |-> h0.wp[w].ptr,
                                       block |-> h0.wp[w].block]], s)))

\* variant: Lock() promotes without asking Expired() first
Lock_AlwaysPromote(h, w, s) == SharedPtr_FromWeak(h, s, w)

\* WeakPtr::Lock(), the result constructed in s
Lock(h, w, s) ==
    IF Expired(h, w) THEN SharedPtr_Default(h, s) ELSE SharedPtr_FromWeak(h, s, w)

\* -------------------------------------------------------------- UniquePtr
\* a UniquePtr is its CompressedPair ptr_: the address (GetFirst) and the
\* deleter (GetSecond)
NoUnique == [live |-> FALSE, ptr |-> Null, del |-> 1]

\* what happened to an address: whether a UniquePtr was given it from
\* outside, how often a deleter was called on it, by which deleter, what the
\* calling UniquePtr stored at the time of the call, and whether Release()
\* handed it back
NoAddr == [adopted |-> FALSE, cleaned |-> 0, by |-> 0, seen |-> Null,
           released |-> FALSE]

UHeap == [up |-> up, mem |-> mem, log |-> <<>>, ret |-> Null]

\* ptr_.GetSecond()(tmp_ptr), called by UniquePtr u on address a
Cleanup(h, u, a) ==
    [h EXCEPT !.mem[a].cleaned = @ + 1, !.mem[a].by = h.up[u].del,
              !.mem[a].seen = h.up[u].ptr,
              !.log = Append(@, <<"Cleanup", a>>)]

\* explicit UniquePtr(T* ptr = nullptr) / UniquePtr(T* ptr, D_&& deleter)
UniquePtr_Ctor(h, u, ptr, d) ==
    [h EXCEPT !.up[u] = [live |-> TRUE, ptr |-> ptr, del |-> d],
              !.mem = IF ptr # Null THEN [@ EXCEPT ![ptr].adopted = TRUE] ELSE @]

\* UniquePtr::Get()
UniquePtr_Get(h, u) == h.up[u].ptr

\* variant: Release() returns the address and keeps it
UniquePtr_Release_Keep(h, u) ==
    [h EXCEPT !.ret = h.up[u].ptr]

\* UniquePtr::Release()
UniquePtr_Release(h, u) ==
    LET tmp_ptr == h.up[u].ptr
    IN  [h EXCEPT !.up[u].ptr = Null, !.ret = tmp_ptr]

\* variant: Reset() calls the deleter before it stores the new address
UniquePtr_Reset_CleanFirst(h, u, ptr) ==
    LET tmp_ptr == h.up[u].ptr
        h1 == IF tmp_ptr # Null THEN Cleanup(h, u, tmp_ptr) ELSE h
    IN  [h1 EXCEPT !.up[u].ptr = ptr]

\* UniquePtr::Reset(T* ptr = nullptr)
UniquePtr_Reset(h, u, ptr) ==
    LET tmp_ptr == h.up[u].ptr
        h1 == [h EXCEPT !.up[u].ptr = ptr]
    IN  IF tmp_ptr # Null THEN Cleanup(h1, u, tmp_ptr) ELSE h1

\* variant: the move constructor takes other.Get() and leaves other as it is
UniquePtr_MoveCtor_NoRelease(h, u, o) ==
    [h EXCEPT !.up[u] = [live |-> TRUE, ptr |-> h.up[o].ptr, del |-> h.up[o].del]]

\* UniquePtr(UniquePtr<U, E>&& other)
UniquePtr_MoveCtor(h, u, o) ==
    LET h1 == UniquePtr_Release(h, o)
    IN  [h1 EXCEPT !.up[u] = [live |-> TRUE, ptr |-> h1.ret, del |-> h1.up[o].del]]

\* variant: move assignment overwrites the held address without cleanup
UniquePtr_MoveAssign_NoCleanup(h, u, o) ==
    IF UniquePtr_Get(h, o) = h.up[u].ptr THEN h
    ELSE LET h1 == UniquePtr_Release(h, o)
         IN  [h1 EXCEPT !.up[u].ptr = h1.ret, !.up[u].del = h1.up[o].del]

\* UniquePtr::operator=(UniquePtr&& other)
UniquePtr_MoveAssign(h, u, o) ==
    IF UniquePtr_Get(h, o) = h.up[u].ptr THEN h
    ELSE LET h1 == UniquePtr_Release(h, o)
             h2 == UniquePtr_Reset(h1, u, h1.ret)
         IN  [h2 EXCEPT !.up[u].del = h2.up[o].del]

\* UniquePtr::~UniquePtr()
UniquePtr_Dtor(h, u) ==
    [UniquePtr_Reset(h, u, Null) EXCEPT !.up[u].live = FALSE]

\* UniquePtr::Swap(UniquePtr& other)
UniquePtr_Swap(h, u, o) ==
    [h EXCEPT !.up[u].ptr = h.up[o].ptr, !.up[o].ptr = h.up[u].ptr,
              !.up[u].del = h.up[o].del, !.up[o].del = h.up[u].del]

\* ------------------------------------------------------------ the program
Init ==
    /\ blk = [b \in Blocks |-> NoBlock]
    /\ obj = [b \in Blocks |-> "none"]
    /\ sp = [s \in SIds |-> NoPtr]
    /\ wp = [w \in WIds |-> NoPtr]
    /\ ub = FALSE
    /\ exc = FALSE
    /\ up = [u \in UIds |-> NoUnique]
    /\ mem = [a \in Addrs |-> NoAddr]

\* the call returns: its result is the next state
Commit(r) ==
    /\ UNCHANGED <<up, mem>>
    /\ blk' = r.blk
    /\ obj' = r.obj
    /\ sp' = r.sp
    /\ wp' = r.wp
    /\ ub' = r.ub
    /\ exc' = r.exc

\* the counters are capped so that the state space is finite
Room == \A b \in Blocks : blk[b].strong < MaxCount /\ blk[b].weak < MaxCount

HasFresh == \E b \in Blocks : blk[b].st = "none"
Fresh == CHOOSE b \in Blocks : blk[b].st = "none" /\ \A c \in Blocks : c < b => blk[c].st # "none"

\* the instances a call can name: every live one, or the client's locals only
LiveS == {s \in SIds : sp[s].live}
LiveW == {w \in WIds : wp[w].live}
LocalS == {s \in StackS : sp[s].live}
LocalW == {w \in StackW : wp[w].live}

\* the objects the client can reach: those its local SharedPtrs point to,
\* and those reached from them through the members `next` (a->next->...)
RECURSIVE ReachFrom(_, _)
ReachFrom(B, n) ==
    IF n = 0 THEN B
    ELSE ReachFrom(B \cup ({sp[MemberS(b)].block : b \in B} \ {Null}), n - 1)

Reach ==
    {b \in ReachFrom({sp[s].block : s \in LocalS} \ {Null}, MaxBlocks) :
        obj[b] = "alive"}

\* the locals and the members of the reachable objects
ReachS == LocalS \cup {MemberS(b) : b \in Reach}
ReachW == LocalW \cup {MemberW(b) : b \in Reach}

\* a new local takes the first unused slot (the slots are interchangeable)
DeadStackS == {s \in StackS : ~sp[s].live /\ \A t \in StackS : t < s => sp[t].live}
DeadStackW == {w \in StackW : ~wp[w].live /\ \A t \in StackW : t < w => wp[t].live}

S_Default ==
    \E s \in DeadStackS : ~ub /\ Commit(SharedPtr_Default(Heap, s))

S_FromRaw ==
    \E s \in DeadStackS :
        ~ub /\ HasFresh /\ Commit(SharedPtr_FromRaw(Heap, s, Fresh))

S_MakeShared ==
    \E s \in DeadStackS :
        ~ub /\ HasFresh /\ Commit(MakeShared(Heap, s, Fresh))

S_Copy(SS) ==
    \E s \in DeadStackS, o \in SS :
        ~ub /\ Room /\ Commit(SharedPtr_Copy(Heap, s, o))

S_Move(SS) ==
    \E s \in DeadStackS, o \in SS :
        /\ ~ub /\ Room
        /\ \E r \in Outcomes(LAMBDA g : SharedPtr_Move(Heap, s, o, g)) :
              Commit(r)

S_Alias(SS) ==
    \E s \in DeadStackS, o \in SS :
        /\ ~ub /\ Room /\ sp[o].block # Null
        /\ Commit(SharedPtr_Alias(Heap, s, o, Sub(sp[o].block)))

S_FromWeak(WW) ==
    \E s \in DeadStackS, w \in WW :
        ~ub /\ Room /\ Commit(SharedPtr_FromWeak(Heap, s, w))

S_CopyAssign(SS) ==
    \E a \in SS, o \in SS :
        /\ ~ub /\ Room
        /\ \E r \in Outcomes(LAMBDA g : SharedPtr_CopyAssign(Heap, a, o, g)) :
              Commit(r)

S_MoveAssign(SS) ==
    \E a \in SS, o \in SS :
        /\ ~ub /\ Room
        /\ \E r \in Outcomes(LAMBDA g : SharedPtr_MoveAssign(Heap, a, o, g)) :
              Commit(r)

S_Dtor ==
    \E s \in LocalS :
        /\ ~ub
        /\ \E r \in Outcomes(LAMBDA g : SharedPtr_Dtor(Heap, s, g)) :
              Commit(r)

S_Reset(SS) ==
    \E s \in SS :
        /\ ~ub
        /\ \E r \in Outcomes(LAMBDA g : SharedPtr_Reset(Heap, s, g)) :
              Commit(r)

S_ResetPtr(SS) ==
    \E s \in SS :
        /\ ~ub /\ HasFresh
        /\ \E ptr \in {Obj(Fresh), sp[s].ptr} :
              \E r \in Outcomes(LAMBDA g : SharedPtr_ResetPtr(Heap, s, ptr, Fresh, g)) :
                  Commit(r)

S_Swap(SS) ==
    \E a \in SS, o \in SS :
        /\ ~ub /\ Room
        /\ \E r \in Outcomes(LAMBDA g : SharedPtr_Swap(Heap, a, o, g)) :
              Commit(r)

W_Default ==
    \E w \in DeadStackW : ~ub /\ Commit(WeakPtr_Default(Heap, w))

W_Copy(WW) ==
    \E w \in DeadStackW, o \in WW :
        ~ub /\ Room /\ Commit(WeakPtr_Copy(Heap, w, o))

W_Move(WW) ==
    \E w \in DeadStackW, o \in WW :
        /\ ~ub /\ Room
        /\ \E r \in Outcomes(LAMBDA g : WeakPtr_Move(Heap, w, o, g)) :
              Commit(r)

W_FromShared(SS) ==
    \E w \in DeadStackW, s \in SS :
        ~ub /\ Room /\ Commit(WeakPtr_FromShared(Heap, w, s))

W_CopyAssign(WW) ==
    \E a \in WW, o \in WW :
        /\ ~ub /\ Room
        /\ \E r \in Outcomes(LAMBDA g : WeakPtr_CopyAssign(Heap, a, o, g)) :
              Commit(r)

W_MoveAssign(WW) ==
    \E a \in WW, o \in WW :
        /\ ~ub /\ Room
        /\ \E r \in Outcomes(LAMBDA g : WeakPtr_MoveAssign(Heap, a, o, g)) :
              Commit(r)

W_Dtor ==
    \E w \in LocalW :
        /\ ~ub
        /\ \E r \in Outcomes(LAMBDA g : WeakPtr_Dtor(Heap, w, g)) :
              Commit(r)

W_Reset(WW) ==
    \E w \in WW :
        /\ ~ub
        /\ \E r \in Outcomes(LAMBDA g : WeakPtr_Reset(Heap, w, g)) :
              Commit(r)

W_Swap(WW) ==
    \E a \in WW, o \in WW :
        /\ ~ub /\ Room
        /\ \E r \in Outcomes(LAMBDA g : WeakPtr_Swap(Heap, a, o, g)) :
              Commit(r)

W_Lock(WW) ==
    \E w \in WW, s \in DeadStackS :
        ~ub /\ Room /\ Commit(Lock(Heap, w, s))

\* every operation, applied to the client's local pointers
Next ==
    \/ S_Default \/ S_FromRaw \/ S_MakeShared \/ S_Copy(LocalS) \/ S_Move(LocalS)
    \/ S_Alias(LocalS) \/ S_FromWeak(LocalW) \/ S_CopyAssign(LocalS)
    \/ S_MoveAssign(LocalS) \/ S_Dtor \/ S_Reset(LocalS) \/ S_ResetPtr(LocalS)
    \/ S_Swap(LocalS)
    \/ W_Default \/ W_Copy(LocalW) \/ W_Move(LocalW) \/ W_FromShared(LocalS)
    \/ W_CopyAssign(LocalW) \/ W_MoveAssign(LocalW) \/ W_Dtor \/ W_Reset(LocalW)
    \/ W_Swap(LocalW) \/ W_Lock(LocalW)

Spec == Init /\ [][Next]_vars

\* pointers stored inside the governed objects: construction, assignment to
\* and from the members `next` and `self`, and destruction
NextNodes ==
    \/ S_FromRaw \/ S_MakeShared \/ S_CopyAssign(ReachS) \/ S_MoveAssign(ReachS)
    \/ S_Dtor \/ S_Reset(ReachS)
    \/ W_FromShared(ReachS) \/ W_CopyAssign(ReachW) \/ W_Dtor

SpecNodes == Init /\ [][NextNodes]_vars

\* construct, copy, alias, observe, destroy
NextCopies ==
    \/ S_FromRaw \/ S_MakeShared \/ S_Copy(LocalS) \/ S_Alias(LocalS) \/ S_Dtor
    \/ W_FromShared(LocalS) \/ W_Dtor

SpecCopies == Init /\ [][NextCopies]_vars

\* UniquePtr: the client constructs pointers from addresses it has not given
\* to a pointer before, moves, releases, resets, swaps and destroys them
UCommit(r) ==
    /\ up' = r.up
    /\ mem' = r.mem
    /\ UNCHANGED <<blk, obj, sp, wp, ub, exc>>

LiveU == {u \in UIds : up[u].live}
DeadU == {u \in UIds : ~up[u].live}

\* the addresses the client may hand to a UniquePtr: nullptr or one that
\* was never given to a pointer
NewAddrs == {Null} \cup {a \in Addrs : ~mem[a].adopted /\ \A c \in Addrs : c < a => mem[c].adopted}

\* Reset(ptr) adopts ptr
Adopt(h, ptr) ==
    IF ptr # Null THEN [h EXCEPT !.mem[ptr].adopted = TRUE] ELSE h

U_Ctor ==
    \E u \in DeadU, ptr \in NewAddrs, d \in Deleters :
        UCommit(UniquePtr_Ctor(UHeap, u, ptr, d))

U_MoveCtor ==
    \E u \in DeadU, o \in LiveU : UCommit(UniquePtr_MoveCtor(UHeap, u, o))

U_MoveAssign ==
    \E u \in LiveU, o \in LiveU : UCommit(UniquePtr_MoveAssign(UHeap, u, o))

\* the client keeps the address Release() returns and gives it to no pointer
U_Release ==
    \E u \in LiveU :
        LET r == UniquePtr_Release(UHeap, u)
        IN  UCommit(IF r.ret # Null THEN [r EXCEPT !.mem[r.ret].released = TRUE]
                    ELSE r)

U_Reset ==
    \E u \in LiveU, ptr \in NewAddrs :
        UCommit(UniquePtr_Reset(Adopt(UHeap, ptr), u, ptr))

U_Swap ==
    \E u \in LiveU, o \in LiveU : UCommit(UniquePtr_Swap(UHeap, u, o))

U_Dtor ==
    \E u \in LiveU : UCommit(UniquePtr_Dtor(UHeap, u))

NextUnique ==
    U_Ctor \/ U_MoveCtor \/ U_MoveAssign \/ U_Release \/ U_Reset \/ U_Swap \/ U_Dtor

SpecUnique == Init /\ [][NextUnique]_vars

\* ---------------------------------------------------------- properties
\* the live SharedPtr and WeakPtr instances that reference block b
RefS(b) == {s \in SIds : sp[s].live /\ sp[s].block = b}
RefW(b) == {w \in WIds : wp[w].live /\ wp[w].block = b}

Created == {b \in Blocks : blk[b].st # "none"}

\* C1: after any sequence of SharedPtr and WeakPtr operations, UseCount()
\* of every non-null SharedPtr is the number of live SharedPtr instances
\* that reference its control block, and a block's strong count is zero
\* exactly when its pointee has been destroyed.
C1_UseCountIsOwners ==
    /\ \A s \in LiveS :
          sp[s].block # Null =>
              SharedPtr_UseCount(Heap, s) = Cardinality(RefS(sp[s].block))
    /\ \A b \in Created : (blk[b].strong = 0) <=> (obj[b] = "dead")

\* C2: a SharedPtr is created for an object and copied; destroying the
\* pointers in any order runs OnZeroStrong exactly once, in the destruction
\* of the last one: never while a pointer is left, and once when none is.
C2_HookOnceAtLast ==
    \A b \in Created :
        /\ RefS(b) # {} => blk[b].hook = 0 /\ obj[b] = "alive"
        /\ RefS(b) = {} => blk[b].hook = 1 /\ obj[b] = "dead"

\* C2 witness: every local is a copy referencing the block of one object;
\* destroying them one after the other, in any order, runs the hook in the
\* last destruction and not before.
C2_Witness ==
    \E b \in Created :
        /\ RefS(b) = StackS /\ blk[b].hook = 0
        /\ \A s \in StackS : \A t \in StackS \ {s} :
              LET r1 == SharedPtr_Dtor(Heap, s, DefaultOracle)
                  r2 == SharedPtr_Dtor(r1, t, DefaultOracle)
              IN  /\ r1.blk[b].hook = 0
                  /\ RefS(b) \ {s, t} = {} => r2.blk[b].hook = 1

\* C3: a control block is freed exactly once, by the decrement that first
\* leaves strong_ + weak_ == 0: a block that is still allocated has a
\* non-zero sum, a freed block is referenced by no SharedPtr or WeakPtr and
\* was freed once, and no block is accessed or freed after it was freed.
C3_BlockFreedOnce ==
    \A b \in Created :
        /\ blk[b].st = "live" => (blk[b].strong + blk[b].weak) % SizeModulus # 0
        /\ blk[b].st = "live" => blk[b].frees = 0
        /\ blk[b].st = "freed" => blk[b].frees = 1 /\ RefS(b) = {} /\ RefW(b) = {}
        /\ ~blk[b].uaf

\* C4: the destruction of the pointee has completed before its control
\* block is deallocated, also when the pointee's destructor releases a
\* WeakPtr to its own block.
C4_DestroyedBeforeFreed ==
    \A b \in Created : blk[b].frees > 0 => blk[b].objAtFree = "dead"

\* C5: Expired() of a WeakPtr that observes a block is false while a live
\* SharedPtr references the block and true as soon as none does, however
\* many WeakPtrs remain.
C5_ExpiredIffNoOwner ==
    \A w \in LiveW :
        wp[w].block # Null =>
            (Expired(Heap, w) <=> RefS(wp[w].block) = {})

\* the counters of every block
Counts(h) == [b \in Blocks |-> <<h.blk[b].strong, h.blk[b].weak>>]

\* C6: Lock() on a non-expired WeakPtr returns a non-null SharedPtr with
\* the WeakPtr's block and address, the strong count one higher and the
\* weak count unchanged; on an expired one it returns a null SharedPtr with
\* UseCount() = 0, raises nothing and changes no count.
C6_Lock ==
    \A w \in LocalW : \A s \in DeadStackS :
        LET r == Lock(Heap, w, s)
            b == wp[w].block
        IN  IF ~Expired(Heap, w)
            THEN /\ r.sp[s].live /\ r.sp[s].block = b
                 /\ r.sp[s].ptr = wp[w].ptr /\ r.sp[s].ptr # Null
                 /\ r.blk[b].strong = blk[b].strong + 1
                 /\ SharedPtr_UseCount(r, s) = WeakPtr_UseCount(Heap, w) + 1
                 /\ Counts(r) = [Counts(Heap) EXCEPT ![b][1] = @ + 1]
                 /\ ~r.exc /\ ~r.ub
            ELSE /\ r.sp[s] = NullPtr
                 /\ SharedPtr_UseCount(r, s) = 0
                 /\ Counts(r) = Counts(Heap)
                 /\ ~r.exc /\ ~r.ub

\* C6 witness: Lock() yields an owner from a WeakPtr whose pointee is alive
\* and a null pointer from one whose pointee has been destroyed.
C6_Witness ==
    \E s \in DeadStackS :
        /\ \E w \in LocalW : /\ ~Expired(Heap, w)
                             /\ Lock(Heap, w, s).sp[s].block = wp[w].block
        /\ \E w \in LocalW : /\ wp[w].block # Null /\ Expired(Heap, w)
                             /\ obj[wp[w].block] = "dead"
                             /\ Lock(Heap, w, s).sp[s] = NullPtr

\* C7: SharedPtr(weak) on an expired WeakPtr raises BadWeakPtr, constructs
\* no SharedPtr and leaves the counts and the WeakPtr unchanged; on a
\* non-expired WeakPtr it does not raise.
C7_Promotion ==
    \A w \in LocalW : \A s \in DeadStackS :
        LET r == SharedPtr_FromWeak(Heap, s, w)
        IN  IF Expired(Heap, w)
            THEN /\ r.exc
                 /\ r.sp = sp /\ r.wp = wp
                 /\ Counts(r) = Counts(Heap)
            ELSE /\ ~r.exc
                 /\ r.sp[s].live /\ r.sp[s].block = wp[w].block

\* C7 witness: the promotion has just raised, on a WeakPtr whose pointee
\* was destroyed.
C7_Witness ==
    /\ exc
    /\ \E w \in LocalW : wp[w].block # Null /\ Expired(Heap, w)

\* C8: the aliasing constructor SharedPtr(other, B) yields a pointer whose
\* Get() is B and whose block is other's, the strong count one higher; the
\* object A of the block is alive while an original or aliased pointer is
\* live, and once all are destroyed A has been destroyed exactly once, the
\* address handed to the deletion being A's and never B.
C8_Aliasing ==
    /\ \A o \in LocalS : \A s \in DeadStackS :
          sp[o].block # Null =>
              LET b == sp[o].block
                  r == SharedPtr_Alias(Heap, s, o, Sub(b))
              IN  /\ SharedPtr_Get(r, s) = Sub(b)
                  /\ r.sp[s].block = b
                  /\ Counts(r) = [Counts(Heap) EXCEPT ![b][1] = @ + 1]
    /\ \A b \in Created :
          /\ RefS(b) # {} => obj[b] = "alive" /\ blk[b].hook = 0
                             /\ blk[b].deleted = Null
          /\ RefS(b) = {} => obj[b] = "dead" /\ blk[b].hook = 1
                             /\ blk[b].deleted = Obj(b)

\* C8 witness: the original pointers are gone and the object is kept alive
\* by an aliased pointer alone.
C8_Witness ==
    \E s \in LocalS :
        /\ sp[s].block # Null
        /\ SharedPtr_Get(Heap, s) = Sub(sp[s].block)
        /\ RefS(sp[s].block) = {s}
        /\ obj[sp[s].block] = "alive"

\* C9: in a copy or move assignment a = b between pointers with different
\* control blocks, the reference to b's block is added before a's old
\* reference is released, and the pointee of b's block is alive during and
\* after the assignment, also when b is a member of a's old pointee.
C9_AddBeforeRelease ==
    LET Pos(l, e) ==
            IF \E i \in 1..Len(l) : l[i] = e
            THEN CHOOSE i \in 1..Len(l) :
                     l[i] = e /\ \A j \in 1..(i - 1) : l[j] # e
            ELSE 0
        AssignedSafely(r, a, o) ==
            /\ ~r.ub
            /\ r.obj[sp[o].block] = "alive"
            /\ Pos(r.log, <<"AddStrong", sp[o].block>>) > 0
            /\ sp[a].block # Null =>
                  Pos(r.log, <<"AddStrong", sp[o].block>>)
                      < Pos(r.log, <<"RemoveStrong", sp[a].block>>)
    IN  \A a \in ReachS : \A o \in ReachS \ {a} :
            (sp[o].block # Null /\ sp[a].block # sp[o].block
                /\ obj[sp[o].block] = "alive") =>
                \A g \in Oracle :
                    /\ AssignedSafely(SharedPtr_CopyAssign(Heap, a, o, g), a, o)
                    /\ AssignedSafely(SharedPtr_MoveAssign(Heap, a, o, g), a, o)

\* C10: self-assignment of a SharedPtr or of a WeakPtr, by copy or by move,
\* changes nothing: addresses, blocks, counts and pointees stay as they
\* were, and no control-block operation is performed.
C10_SelfAssign ==
    /\ \A a \in LocalS : \A g \in Oracle :
          /\ SharedPtr_CopyAssign(Heap, a, a, g) = Heap
          /\ SharedPtr_MoveAssign(Heap, a, a, g) = Heap
    /\ \A a \in LocalW : \A g \in Oracle :
          /\ WeakPtr_CopyAssign(Heap, a, a, g) = Heap
          /\ WeakPtr_MoveAssign(Heap, a, a, g) = Heap

\* C10 witness: a SharedPtr that is the only owner of its object and the
\* only WeakPtr observing it are assigned to themselves, and the object
\* stays alive with both counts at one.
C10_Witness ==
    \E a \in LocalS : \E w \in LocalW :
        /\ sp[a].block # Null /\ wp[w].block = sp[a].block
        /\ LET r == WeakPtr_MoveAssign(
                        SharedPtr_MoveAssign(Heap, a, a, DefaultOracle),
                        w, w, DefaultOracle)
           IN  /\ Counts(r)[sp[a].block] = <<1, 1>>
               /\ r.obj[sp[a].block] = "alive"

\* C11: move construction from a source leaves the source null (Get() null,
\* UseCount() 0), gives the new pointer the source's former address and
\* block, leaves every count as it was, and destroys no pointee at any
\* point of the call, also when the source was the only owner.
C11_MoveConstruct ==
    \A o \in LocalS : \A s \in DeadStackS : \A g \in Oracle :
        LET r == SharedPtr_Move(Heap, s, o, g)
        IN  /\ r.sp[o] = NullPtr
            /\ SharedPtr_Get(r, o) = Null /\ SharedPtr_UseCount(r, o) = 0
            /\ r.sp[s] = [live |-> TRUE, ptr |-> sp[o].ptr, block |-> sp[o].block]
            /\ Counts(r) = Counts(Heap)
            /\ r.obj = obj
            /\ \A i \in 1..Len(r.log) :
                  r.log[i][1] \notin {"OnZeroStrong", "DtorBegin", "Free"}
            /\ ~r.ub /\ ~r.exc

\* C11 witness: the only owner of a live object has been moved from: the
\* source is null and the new pointer owns the object alone.
C11_Witness ==
    \E o \in LocalS : \E s \in DeadStackS :
        /\ sp[o].block # Null /\ SharedPtr_UseCount(Heap, o) = 1
        /\ obj[sp[o].block] = "alive"
        /\ LET r == SharedPtr_Move(Heap, s, o, DefaultOracle)
           IN  /\ SharedPtr_UseCount(r, s) = 1
               /\ r.sp[o] = NullPtr

\* C12: Reset(new_address) on any SharedPtr, for any new_address including
\* the address it already stores, leaves the pointer storing new_address
\* and referencing a freshly created control block with strong count 1 and
\* weak count 0, the block referenced before having lost exactly one
\* strong reference.
C12_ResetToAddress ==
    \A s \in LocalS :
        HasFresh =>
            \A ptr \in {Obj(Fresh), sp[s].ptr} : \A g \in Oracle :
                LET r == SharedPtr_ResetPtr(Heap, s, ptr, Fresh, g)
                    old == sp[s].block
                IN  /\ SharedPtr_Get(r, s) = ptr
                    /\ r.sp[s].block = Fresh
                    /\ r.blk[Fresh].st = "live"
                    /\ Counts(r)[Fresh] = <<1, 0>>
                    /\ old # Null =>
                          /\ r.blk[old].strong = Dec(blk[old].strong)
                          /\ r.blk[old].weak = blk[old].weak

\* the strong counts of all blocks
Strongs(h) == [b \in Blocks |-> h.blk[b].strong]

\* C13: after every sequence of operations the weak count of each control
\* block is the number of live WeakPtr instances that reference it, and no
\* WeakPtr operation (construction from a SharedPtr, copy and move
\* construction, copy and move assignment, also between WeakPtrs that share
\* a block, Reset, Swap, destruction) changes a strong count.
C13_WeakCountIsObservers ==
    /\ \A b \in Created :
          /\ blk[b].st = "live" => blk[b].weak = Cardinality(RefW(b))
          /\ blk[b].st = "freed" => RefW(b) = {}
    /\ \A g \in Oracle :
          /\ \A a \in LocalW :
                /\ Strongs(WeakPtr_Reset(Heap, a, g)) = Strongs(Heap)
                /\ Strongs(WeakPtr_Dtor(Heap, a, g)) = Strongs(Heap)
                /\ \A o \in LocalW :
                      /\ Strongs(WeakPtr_CopyAssign(Heap, a, o, g)) = Strongs(Heap)
                      /\ Strongs(WeakPtr_MoveAssign(Heap, a, o, g)) = Strongs(Heap)
                      /\ Strongs(WeakPtr_Swap(Heap, a, o, g)) = Strongs(Heap)
          /\ \A w \in DeadStackW :
                /\ \A o \in LocalW :
                      /\ Strongs(WeakPtr_Copy(Heap, w, o)) = Strongs(Heap)
                      /\ Strongs(WeakPtr_Move(Heap, w, o, g)) = Strongs(Heap)
                /\ \A s \in LocalS :
                      Strongs(WeakPtr_FromShared(Heap, w, s)) = Strongs(Heap)

\* C13 witness: two WeakPtrs observe one block, whose weak count is 2, and
\* assigning one to the other leaves it at 2.
C13_Witness ==
    \E a \in LocalW : \E o \in LocalW \ {a} :
        /\ wp[a].block # Null /\ wp[o].block = wp[a].block
        /\ blk[wp[a].block].weak = 2
        /\ WeakPtr_CopyAssign(Heap, a, o, DefaultOracle).blk[wp[a].block].weak = 2

\* C14: MakeShared makes exactly one allocation, which holds the control
\* block and the object; when the strong count reaches zero the object is
\* destroyed in place and nothing is deallocated, and the allocation is
\* released exactly once, when the block is freed with both counts zero.
\* SharedPtr(raw address) makes exactly one allocation, for the block, the
\* object lying in an allocation of its own.
C14_OneAllocation ==
    LET News(l) == Cardinality({i \in 1..Len(l) : l[i][1] = "New"})
    IN  /\ \A s \in DeadStackS :
              HasFresh =>
                  /\ News(MakeShared(Heap, s, Fresh).log) = 1
                  /\ MakeShared(Heap, s, Fresh).blk[Fresh].objmem = "inside"
                  /\ News(SharedPtr_FromRaw(Heap, s, Fresh).log) = 1
                  /\ SharedPtr_FromRaw(Heap, s, Fresh).blk[Fresh].objmem = "own"
        /\ \A b \in Created :
              /\ blk[b].kind = "emplace" =>
                    /\ blk[b].objmem = "inside"
                    /\ (blk[b].hook > 0 /\ RefW(b) # {}) =>
                          obj[b] = "dead" /\ blk[b].st = "live" /\ blk[b].frees = 0
                    /\ blk[b].frees <= 1
                    /\ blk[b].frees > 0 => blk[b].objAtFree = "dead"
                    /\ blk[b].st = "live" => blk[b].strong + blk[b].weak > 0
              /\ blk[b].kind = "pointer" =>
                    blk[b].objmem = (IF blk[b].hook > 0 THEN "released" ELSE "own")

\* how often the deleter was called on each address
Cleaned(h) == [a \in Addrs |-> h.mem[a].cleaned]

\* C15: move construction and move assignment from a source that holds an
\* address leave the source null and the destination holding that address,
\* on which no cleanup is invoked; move assignment invokes the cleanup
\* exactly once on the address the destination held before, if it held
\* one; a move between a source and a destination that hold the same
\* address invokes no cleanup and leaves the address held.
C15_UniqueMove ==
    /\ \A o \in LiveU : \A u \in DeadU :
          up[o].ptr # Null =>
              LET r == UniquePtr_MoveCtor(UHeap, u, o)
              IN  /\ UniquePtr_Get(r, o) = Null
                  /\ r.up[u].live /\ UniquePtr_Get(r, u) = up[o].ptr
                  /\ Cleaned(r) = Cleaned(UHeap)
                  /\ r.log = <<>>
    /\ \A o \in LiveU : \A u \in LiveU :
          up[o].ptr # Null =>
              LET r == UniquePtr_MoveAssign(UHeap, u, o)
              IN  IF up[u].ptr = up[o].ptr
                  THEN /\ r.up = up /\ Cleaned(r) = Cleaned(UHeap)
                       /\ r.log = <<>>
                  ELSE /\ UniquePtr_Get(r, o) = Null
                       /\ UniquePtr_Get(r, u) = up[o].ptr
                       /\ r.mem[up[o].ptr].cleaned = mem[up[o].ptr].cleaned
                       /\ IF up[u].ptr # Null
                          THEN /\ r.log = << <<"Cleanup", up[u].ptr>> >>
                               /\ Cleaned(r) = [Cleaned(UHeap) EXCEPT ![up[u].ptr] = @ + 1]
                          ELSE /\ r.log = <<>>
                               /\ Cleaned(r) = Cleaned(UHeap)

\* C15 witness: two UniquePtrs hold different addresses and one is move
\* assigned to the other, which cleans up the destination's old address.
C15_Witness ==
    \E o \in LiveU : \E u \in LiveU \ {o} :
        /\ up[o].ptr # Null /\ up[u].ptr # Null
        /\ UniquePtr_MoveAssign(UHeap, u, o).mem[up[u].ptr].cleaned = 1
        /\ UniquePtr_MoveAssign(UHeap, u, o).up[u].ptr = up[o].ptr

\* C16: Release() returns the address held before the call, leaves the
\* pointer null and invokes no cleanup; a following Reset() or destruction
\* of the pointer invokes no cleanup on the released address.
C16_Release ==
    \A u \in LiveU :
        LET r == UniquePtr_Release(UHeap, u)
        IN  /\ r.ret = up[u].ptr
            /\ UniquePtr_Get(r, u) = Null
            /\ Cleaned(r) = Cleaned(UHeap) /\ r.log = <<>>
            /\ Cleaned(UniquePtr_Reset(r, u, Null)) = Cleaned(UHeap)
            /\ UniquePtr_Reset(r, u, Null).log = <<>>
            /\ Cleaned(UniquePtr_Dtor(r, u)) = Cleaned(UHeap)
            /\ UniquePtr_Dtor(r, u).log = <<>>

\* C16 witness: an address was handed back by Release(), the pointer that
\* held it has since been destroyed, and no cleanup was invoked on it.
C16_Witness ==
    \E a \in Addrs :
        /\ mem[a].released /\ mem[a].cleaned = 0
        /\ LiveU = {}

\* C17 as stated: Reset(new_address), for every new_address: the pointer
\* stores new_address; if it held a non-null address the cleanup is invoked
\* exactly once on that address, after the pointer stores new_address (the
\* cleanup reads new_address from the pointer); if it held none no cleanup is
\* invoked; and the cleanup is never invoked on new_address.
C17_ResetAnyAddress ==
    LET ResetDone(r, u, ptr) ==
            /\ UniquePtr_Get(r, u) = ptr
            /\ IF up[u].ptr # Null
               THEN /\ r.log = << <<"Cleanup", up[u].ptr>> >>
                    /\ r.mem[up[u].ptr].cleaned = mem[up[u].ptr].cleaned + 1
                    /\ r.mem[up[u].ptr].seen = ptr
               ELSE r.log = <<>>
            /\ ptr # Null => r.mem[ptr].cleaned = mem[ptr].cleaned
    IN  \A u \in LiveU : \A ptr \in NewAddrs \cup {up[u].ptr} :
            ResetDone(UniquePtr_Reset(Adopt(UHeap, ptr), u, ptr), u, ptr)

\* C17 amended: the same for every new_address other than a non-null
\* address the pointer itself holds at the call.
C17_ResetOtherAddress ==
    LET ResetDone(r, u, ptr) ==
            /\ UniquePtr_Get(r, u) = ptr
            /\ IF up[u].ptr # Null
               THEN /\ r.log = << <<"Cleanup", up[u].ptr>> >>
                    /\ r.mem[up[u].ptr].cleaned = mem[up[u].ptr].cleaned + 1
                    /\ r.mem[up[u].ptr].seen = ptr
               ELSE r.log = <<>>
            /\ ptr # Null => r.mem[ptr].cleaned = mem[ptr].cleaned
    IN  \A u \in LiveU : \A ptr \in NewAddrs :
            ResetDone(UniquePtr_Reset(Adopt(UHeap, ptr), u, ptr), u, ptr)

\* C17 witness: a pointer that held an address was reset to another one,
\* and the deleter called on the old address saw the new one stored.
C17_Witness ==
    \E u \in LiveU : \E a \in Addrs :
        /\ up[u].ptr # Null /\ up[u].ptr # a
        /\ mem[a].cleaned = 1 /\ mem[a].seen = up[u].ptr

\* C18: if every address is given to a UniquePtr from outside at most once,
\* no two live UniquePtrs hold the same non-null address, the cleanup is
\* invoked at most once per address, and when no pointer is left it has
\* been invoked exactly once on every address given to a pointer and not
\* handed back by Release().
C18_UniqueOwner ==
    /\ \A u \in LiveU : \A o \in LiveU \ {u} :
          up[u].ptr # Null => up[u].ptr # up[o].ptr
    /\ \A a \in Addrs : mem[a].cleaned <= 1
    /\ LiveU = {} =>
          \A a \in Addrs :
              (mem[a].adopted /\ ~mem[a].released) => mem[a].cleaned = 1

\* C18 witness: all pointers are gone, every address was given to one, one
\* address was handed back by Release() and another was cleaned up.
C18_Witness ==
    /\ LiveU = {}
    /\ \A a \in Addrs : mem[a].adopted
    /\ \E a \in Addrs : mem[a].released /\ mem[a].cleaned = 0
    /\ \E a \in Addrs : ~mem[a].released /\ mem[a].cleaned = 1

\* C19: Swap(a, b) for any two SharedPtrs (both null, one null, different
\* control blocks, or one control block with equal or different stored
\* addresses) exchanges their (stored address, control block) pairs, leaves
\* the strong and weak counts of every control block unchanged and destroys
\* no pointee; applying Swap twice restores the original state.
C19_SwapExchanges ==
    \A a \in LocalS : \A o \in LocalS : \A g \in Oracle :
        Room =>
            LET r  == SharedPtr_Swap(Heap, a, o, g)
                rr == SharedPtr_Swap([r EXCEPT !.log = <<>>], a, o, g)
            IN  /\ ~r.ub /\ ~r.exc
                /\ r.sp[a] = sp[o] /\ r.sp[o] = sp[a]
                /\ Counts(r) = Counts(Heap)
                /\ r.obj = obj
                /\ \A i \in 1..Len(r.log) :
                      r.log[i][1] \notin {"OnZeroStrong", "DtorBegin", "Free"}
                /\ ~rr.ub /\ ~rr.exc
                /\ rr.sp[a] = sp[a] /\ rr.sp[o] = sp[o]
                /\ Counts(rr) = Counts(Heap)
                /\ rr.obj = obj

\* C20: after copy assignment a = b for two distinct pointers a stores b's
\* address and references b's control block and b is unchanged; after move
\* assignment a = std::move(b), a holds b's former stored address and control
\* block and b is null; also when a and b already shared a control block but
\* stored different (aliased) addresses.
C20_AssignTakesPair ==
    \A a \in LocalS : \A o \in LocalS \ {a} : \A g \in Oracle :
        Room =>
            LET c == SharedPtr_CopyAssign(Heap, a, o, g)
                m == SharedPtr_MoveAssign(Heap, a, o, g)
            IN  /\ SharedPtr_Get(c, a) = SharedPtr_Get(c, o)
                /\ c.sp[a].block = sp[o].block
                /\ c.sp[o] = sp[o]
                /\ m.sp[a].ptr = sp[o].ptr
                /\ m.sp[a].block = sp[o].block
                /\ m.sp[o].block = Null /\ SharedPtr_Get(m, o) = Null

====
